---- MODULE Spec2Model ----
(***************************************************************************)
(* A model of the batch job engine of sp-workshop (src/video_app_v8.py):   *)
(*   - the job runner of VideoProcessingApp (run_script, the two           *)
(*     transcription entry points, stop_operation, the grace timer and     *)
(*     force_terminate_worker, the completion handlers) together with the  *)
(*     ScriptWorker thread and the child processes its pipeline spawns;    *)
(*   - the batch pipelines (download_episodes, extract_subtitles,          *)
(*     translate_subtitles, process_video, remux_mkv_with_srt_batch);      *)
(*   - the combined progress computation of on_progress_update.            *)
(***************************************************************************)
EXTENDS Integers, Sequences, FiniteSets, TLC

(***************************************************************************)
(* Bounds of the model.                                                    *)
(***************************************************************************)
MaxWorkers == 2
MaxItems == 2
MaxQueue == 1
MaxTimers == 1
MaxBatch == 2
MaxLines == 1
MaxDuration == 3
MaxTime == 4
MaxStrLen == 5
MaxCmds == 3
MaxLogLines == 2
MaxFields == 4
MaxEntries == 3

WorkerIds == 1..MaxWorkers
Items == 1..MaxBatch

\* self.worker = None
NoWorker == 0

\* a progress event whose label carries no "(P%)" part
NoPct == -1

VARIABLES
    worker,      \* VideoProcessingApp.worker: NoWorker or a worker id
    nworkers,    \* number of ScriptWorker objects constructed so far
    wstate,      \* thread state of each worker: unborn, running, exited, terminated
    wkind,       \* the completion handler its finished signal is connected to
    wstop,       \* ScriptWorker._stop_requested
    wleft,       \* items (tool invocations) its pipeline still has to go through
    wpc,         \* position of the thread inside ScriptWorker.run
    children,    \* number of tool child processes alive, per job that spawned them
    queue,       \* signals queued from the worker threads to the main thread
    timers       \* pending QTimer.singleShot(3000, force_terminate_worker)

runnerVars == <<worker, nworkers, wstate, wkind, wstop, wleft, wpc, children, queue, timers>>

\* The batch model: one job running one batch pipeline over its items.
VARIABLES
    pipeline,       \* the pipeline function the job runs
    total_videos,          \* number of items of the batch
    idx,            \* the loop index (1-based)
    bpc,            \* position of the pipeline: loop, reading, done, killed
    tool,           \* whether the tool binaries of the pipeline are installed
    artifact,       \* the declared output of each item: none, old (there before
                    \* this run), new (written by this run)
    input,          \* whether the subtitle an item needs is there
    og,             \* translate_subtitles: whether the item's _OG backup is there
    itemState,      \* BatchItem.state
    existedBefore,  \* whether the item's artifact was there when its turn came
    spawns,         \* child processes created for each item (probes and tool)
    alive,          \* child processes of the job that are alive
    nlines,         \* len(error_lines) / len(output_lines) of the item being read
    report,         \* what the pipeline logged about each item
    hadLines,       \* output lines the tool had printed when the last item failed
    reportLines,    \* output lines logged with the last failure
    success_count,  \* success_count / len(downloaded_files)
    stop,           \* ScriptWorker._stop_requested of the job
    stopLimit,      \* the item that was in progress when stop was requested
    returned,         \* the pipeline's return value
    returncode,       \* the exit code the last process.wait() returned
    emitted,          \* item_index of the progress events emitted, in order
    observed          \* item_index of the events on_progress_update has received

batchVars == <<pipeline, total_videos, idx, bpc, tool, artifact, input, og, itemState,
               existedBefore, spawns, alive, nlines, report, hadLines, reportLines,
               success_count, stop, stopLimit, returned, returncode, emitted, observed>>

\* the progress display of one batch job
VARIABLES
    ptotal,            \* number of items of the batch the display follows
    pidx,              \* the item whose events arrive, 0 before the first
    video_duration_seconds,  \* what the duration probe returned, 0 for None
    current_time_seconds,    \* the time= value of the last ffmpeg progress line
    file_percentage,   \* percentage of the last event in tenths, NoPct for none
    progress_bar       \* the value of the progress bar

progVars == <<ptotal, pidx, video_duration_seconds, current_time_seconds,
              file_percentage, progress_bar>>

\* one call of a pure function of the program
VARIABLES
    fn,       \* the function called
    arg,      \* its argument
    out,      \* what it returned
    called    \* whether the call has returned

pureVars == <<fn, arg, out, called>>

vars == <<runnerVars, batchVars, progVars, pureVars>>

(***************************************************************************)
(* on_progress_update: the percentage put on the progress bar.             *)
(* Percentages carried by a label are in tenths of a percent (the label    *)
(* is formatted with one decimal), so pct = 452 stands for "(45.2%)".      *)
(***************************************************************************)
Min(a, b) == IF a < b THEN a ELSE b
Max(a, b) == IF a > b THEN a ELSE b

\* completed_files_progress + current_file_progress, truncated by int()
CombinedWithPct(current, total, pct) ==
    LET completed10 == IF current > 1 THEN (current - 1) * 1000 ELSE 0
        combined == (completed10 + pct) \div (10 * total)
    IN  Min(100, Max(0, combined))

\* fallback to file-level progress only
CombinedFallback(current, total) == (current * 100) \div total

\* the value on_progress_update sets for total > 0
CombinedPercent(current, total, pct) ==
    IF pct # NoPct THEN CombinedWithPct(current, total, pct)
                   ELSE CombinedFallback(current, total)

on_progress_update(bar, current, total, pct) ==
    IF total > 0 THEN CombinedPercent(current, total, pct) ELSE bar

(***************************************************************************)
(* The job runner.  A pipeline is seen here as a sequence of items, each   *)
(* of which spawns one tool child process; what it does with the file      *)
(* system and how it counts successes is in the batch model below.         *)
(***************************************************************************)
isRunning(w) == w # NoWorker /\ wstate[w] = "running"

RunnerInit ==
    /\ worker = NoWorker
    /\ nworkers = 0
    /\ wstate = [w \in WorkerIds |-> "unborn"]
    /\ wkind = [w \in WorkerIds |-> "script"]
    /\ wstop = [w \in WorkerIds |-> FALSE]
    /\ wleft = [w \in WorkerIds |-> 0]
    /\ wpc = [w \in WorkerIds |-> "loop"]
    /\ children = [w \in WorkerIds |-> 0]
    /\ queue = <<>>
    /\ timers = 0

\* ScriptWorker(...), the connects and worker.start()
StartWorker(kind, total) ==
    LET w == nworkers + 1 IN
    /\ nworkers < MaxWorkers
    /\ nworkers' = w
    /\ worker' = w
    /\ wstate' = [wstate EXCEPT ![w] = "running"]
    /\ wkind' = [wkind EXCEPT ![w] = kind]
    /\ wleft' = [wleft EXCEPT ![w] = total]
    /\ UNCHANGED <<batchVars, progVars, pureVars, wstop, wpc, children, queue, timers>>

\* the busy check of run_script
Busy == isRunning(worker)

run_script ==
    /\ ~Busy
    /\ \E total \in 1..MaxItems : StartWorker("script", total)

\* transcribe_from_tab: transcribe_video is a single tool invocation
transcribe_from_tab == StartWorker("transcribe", 1)

\* transcribe_time_range: the ffmpeg extraction, then whisper
transcribe_time_range == StartWorker("transcribe", 2)

\* ScriptWorker.stop
WorkerStop(w) == [wstop EXCEPT ![w] = TRUE]

stop_operation ==
    /\ isRunning(worker)
    /\ timers < MaxTimers
    /\ wstop' = WorkerStop(worker)
    /\ timers' = timers + 1
    /\ UNCHANGED <<batchVars, progVars, pureVars, worker, nworkers, wstate, wkind, wleft, wpc, children, queue>>

\* a worker whose thread is gone: the object's fields are not read any more
Dropped(w, how) ==
    /\ wstate' = [wstate EXCEPT ![w] = how]
    /\ wpc' = [wpc EXCEPT ![w] = "loop"]
    /\ wleft' = [wleft EXCEPT ![w] = 0]
    /\ wstop' = [wstop EXCEPT ![w] = FALSE]
    /\ wkind' = [wkind EXCEPT ![w] = "script"]

\* the children alive after QThread.terminate() and wait(): it ends the thread only
ChildrenAfterTerminate(w) == children

\* a completion handler that does not clear self.worker
OnFinished_keeps_worker == UNCHANGED worker

\* on_script_finished / on_transcribe_finished
OnFinished == worker' = NoWorker

force_terminate_worker ==
    /\ timers > 0
    /\ timers' = timers - 1
    /\ IF isRunning(worker)
       THEN /\ Dropped(worker, "terminated")
            /\ children' = ChildrenAfterTerminate(worker)
            /\ OnFinished
       ELSE UNCHANGED <<worker, wstate, wpc, wleft, wstop, wkind, children>>
    /\ UNCHANGED <<batchVars, progVars, pureVars, nworkers, queue>>

\* the main thread's event loop takes the next queued signal
deliver ==
    /\ queue # <<>>
    /\ queue' = Tail(queue)
    /\ IF Head(queue).sig = "finished" THEN OnFinished ELSE UNCHANGED worker
    /\ UNCHANGED <<batchVars, progVars, pureVars, nworkers, wstate, wkind, wstop, wleft, wpc, children, timers>>

(***************************************************************************)
(* The worker thread: ScriptWorker.run around a pipeline.                  *)
(***************************************************************************)
\* progress_callback of ScriptWorker.run: muted once stop is requested
EmitProgress(w) ==
    IF wstop[w] THEN queue
    ELSE Append(queue, [sig |-> "progress", w |-> w, val |-> FALSE, log |-> "none",
                        raised |-> FALSE, cancelled |-> FALSE])

\* the safe point at the head of the item loop: the pipelines never read the flag
MayStartItem(w) == TRUE

\* an item whose output exists (or whose input is missing) is skipped
item_skip(w) ==
    /\ wstate[w] = "running" /\ wpc[w] = "loop" /\ wleft[w] > 0
    /\ wkind[w] = "script"
    /\ MayStartItem(w)
    /\ Len(queue) < MaxQueue
    /\ queue' = EmitProgress(w)
    /\ wleft' = [wleft EXCEPT ![w] = @ - 1]
    /\ UNCHANGED <<batchVars, progVars, pureVars, worker, nworkers, wstate, wkind, wstop, wpc, children, timers>>

\* the loop body up to subprocess.Popen / subprocess.run
item_begin(w) ==
    /\ wstate[w] = "running" /\ wpc[w] = "loop" /\ wleft[w] > 0
    /\ MayStartItem(w)
    /\ Len(queue) < MaxQueue
    /\ queue' = IF wkind[w] = "script" THEN EmitProgress(w) ELSE queue
    /\ children' = [children EXCEPT ![w] = @ + 1]
    /\ wpc' = [wpc EXCEPT ![w] = "reading"]
    /\ UNCHANGED <<batchVars, progVars, pureVars, worker, nworkers, wstate, wkind, wstop, wleft, timers>>

\* EOF and process.wait(): the child has exited; the item succeeded or failed
item_finish(w) ==
    /\ wstate[w] = "running" /\ wpc[w] = "reading"
    /\ children' = [children EXCEPT ![w] = @ - 1]
    \* a failed step of a transcription returns False at once
    /\ \E ok \in BOOLEAN :
        wleft' = [wleft EXCEPT ![w] = IF wkind[w] = "transcribe" /\ ~ok THEN 0 ELSE @ - 1]
    /\ wpc' = [wpc EXCEPT ![w] = "loop"]
    /\ UNCHANGED <<batchVars, progVars, pureVars, worker, nworkers, wstate, wkind, wstop, queue, timers>>

\* reading the child's output raised: the per-item handler logs and goes on,
\* nobody waits for the child
item_except(w) ==
    /\ wstate[w] = "running" /\ wpc[w] = "reading"
    /\ wkind[w] = "script"
    /\ wleft' = [wleft EXCEPT ![w] = @ - 1]
    /\ wpc' = [wpc EXCEPT ![w] = "loop"]
    /\ UNCHANGED <<batchVars, progVars, pureVars, worker, nworkers, wstate, wkind, wstop, children, queue, timers>>

\* the value ScriptWorker.run emits with finished
FinishedValue(w, result) == IF wstop[w] THEN FALSE ELSE result

\* the log_message ScriptWorker.run itself emits just before finished
FinalLog(w, raised) ==
    IF raised THEN (IF wstop[w] THEN "none" ELSE "error")
              ELSE (IF wstop[w] THEN "cancelled" ELSE "none")

\* script_func returned or raised: run emits finished
run_finish(w) ==
    /\ wstate[w] = "running" /\ wpc[w] = "loop" /\ wleft[w] = 0
    /\ \E result \in BOOLEAN, raised \in BOOLEAN :
        \* a call that raised has no return value
        /\ raised => ~result
        /\ queue' = Append(queue, [sig |-> "finished", w |-> w,
                                   val |-> IF raised THEN FALSE ELSE FinishedValue(w, result),
                                   log |-> FinalLog(w, raised),
                                   raised |-> raised, cancelled |-> wstop[w]])
    /\ wpc' = [wpc EXCEPT ![w] = "emitted"]
    /\ UNCHANGED <<batchVars, progVars, pureVars, worker, nworkers, wstate, wkind, wstop, wleft, children, timers>>

\* run returned: the thread is no longer running
thread_exit(w) ==
    /\ wstate[w] = "running" /\ wpc[w] = "emitted"
    /\ Dropped(w, "exited")
    /\ UNCHANGED <<batchVars, progVars, pureVars, worker, nworkers, children, queue, timers>>

\* a child nobody reads any more (its thread was terminated, or went on after an
\* exception) runs to its end by itself
Abandoned(w) ==
    children[w] - (IF wstate[w] = "running" /\ wpc[w] = "reading" THEN 1 ELSE 0)

child_exit ==
    /\ \E w \in WorkerIds :
        /\ Abandoned(w) > 0
        /\ children' = [children EXCEPT ![w] = @ - 1]
    /\ UNCHANGED <<batchVars, progVars, pureVars, worker, nworkers, wstate, wkind, wstop, wleft, wpc, queue, timers>>

(***************************************************************************)
(* The batch pipelines: one job running download_episodes,                 *)
(* extract_subtitles, translate_subtitles, process_video or                *)
(* remux_mkv_with_srt_batch over its items, on a file system in which      *)
(* each item has one declared output artifact.                             *)
(***************************************************************************)
Pipelines == {"download_episodes", "extract_subtitles", "clean_subtitles",
              "translate_subtitles", "process_video", "remux_mkv_with_srt_batch",
              "transcribe_video_time_range"}

\* the pipelines that loop over a list of items; transcribe_video_time_range
\* is a single-item job: the ffmpeg extraction, then one whisper invocation
IsBatch(p) == p # "transcribe_video_time_range"

\* clean_subtitles rewrites each file in-process and spawns nothing: its item is
\* done (cleaned_count), skipped (no colour tags in it) or raised
InProcess(p) == p = "clean_subtitles"

\* the pipelines whose item reads a file that may be missing or unreadable
HasInput(p) == p \in {"process_video", "remux_mkv_with_srt_batch", "clean_subtitles"}

\* the pipelines that look for the item's output before they run it
HasSkipCheck(p) == p \in {"extract_subtitles", "process_video", "remux_mkv_with_srt_batch"}

\* of these, the ones that log the skip ("Skip silently - no log needed" in remux)
LogsSkip(p) == p \in {"extract_subtitles", "process_video"}

\* the pipelines whose item needs a subtitle file beside its video
NeedsSubtitle(p) == p \in {"process_video", "remux_mkv_with_srt_batch"}

\* subprocess.run blocks, kills its child on an exception and waits for it;
\* the other pipelines hold a Popen object and wait for it themselves
UsesSubprocessRun(p) == p \in {"remux_mkv_with_srt_batch", "transcribe_video_time_range"}

\* Popen(shell=True) starts a shell even when the tool is not installed
UsesShell(p) == p = "download_episodes"

\* child processes the diagnostic calls of an item create: the duration and channel
\* probes of process_video, "which gst" (and the module probe) of find_gst_command
Probes(p, installed) ==
    CASE p = "process_video" -> IF installed THEN 2 ELSE 0
      [] p = "translate_subtitles" -> IF installed THEN 1 ELSE 2
      [] OTHER -> 0

\* error_lines[-10:] in process_video and remux, output_lines[-5:] elsewhere
TailLines(p) == IF p \in {"process_video", "remux_mkv_with_srt_batch"} THEN 10 ELSE 5

\* lines of tool output a failure record carries
FailureLines(p, n) == Min(n, TailLines(p))

\* lines of tool output the per-item exception handler logs
ExceptionLines(p, n) == 0

\* the success test after process.wait(): the exit code and the artifact
ItemSucceeded(p, rc, art) ==
    IF p = "transcribe_video_time_range"
    THEN art # "none"              \* temp_srt.exists(): the exit code is not read
    ELSE rc = 0 /\ art # "none"

\* the pipeline's return value
BatchResult(count) == count > 0

\* the value the pipeline function returns after its loop
PipelineResult(p, count) == IF p = "clean_subtitles" THEN TRUE ELSE BatchResult(count)

BatchInit ==
    /\ pipeline \in Pipelines
    /\ total_videos \in 1..MaxBatch
    /\ idx = 1
    /\ bpc = "loop"
    /\ tool \in BOOLEAN
    /\ artifact \in [Items -> {"none", "old"}]
    /\ input \in [Items -> BOOLEAN]
    /\ og \in [Items -> BOOLEAN]
    \* what the pipeline does not look at is kept at one value
    /\ \A i \in Items : i > total_videos => artifact[i] = "none" /\ input[i] /\ ~og[i]
    /\ HasInput(pipeline) \/ \A i \in Items : input[i]
    /\ IsBatch(pipeline) \/ (total_videos = 1 /\ artifact[1] = "none")
    \* a file that cannot be read is not known to be clean
    /\ InProcess(pipeline) => \A i \in Items : ~input[i] => artifact[i] = "none"
    /\ pipeline = "translate_subtitles" \/ \A i \in Items : ~og[i]
    /\ itemState = [i \in Items |-> "Pending"]
    /\ existedBefore = [i \in Items |-> FALSE]
    /\ spawns = [i \in Items |-> 0]
    /\ alive = 0
    /\ nlines = 0
    /\ report = [i \in Items |-> "none"]
    /\ hadLines = 0
    /\ reportLines = 0
    /\ success_count = 0
    /\ stop = FALSE
    /\ stopLimit = 0
    /\ returned = FALSE
    /\ returncode = 0
    /\ emitted = <<>>
    /\ observed = <<>>

\* the batch model at rest, for the specifications that do not run it
BatchIdle ==
    /\ pipeline = "process_video"
    /\ total_videos = 1
    /\ idx = 1
    /\ bpc = "idle"
    /\ tool = TRUE
    /\ artifact = [i \in Items |-> "none"]
    /\ input = [i \in Items |-> TRUE]
    /\ og = [i \in Items |-> FALSE]
    /\ itemState = [i \in Items |-> "Pending"]
    /\ existedBefore = [i \in Items |-> FALSE]
    /\ spawns = [i \in Items |-> 0]
    /\ alive = 0
    /\ nlines = 0
    /\ report = [i \in Items |-> "none"]
    /\ hadLines = 0
    /\ reportLines = 0
    /\ success_count = 0
    /\ stop = FALSE
    /\ stopLimit = 0
    /\ returned = FALSE
    /\ returncode = 0
    /\ emitted = <<>>
    /\ observed = <<>>

\* the item's iteration ends without a child: continue, or the handler of an
\* exception raised before the child existed
ItemSettled(state, rep, probes) ==
    /\ itemState' = [itemState EXCEPT ![idx] = state]
    /\ report' = [report EXCEPT ![idx] = rep]
    /\ spawns' = [spawns EXCEPT ![idx] = probes]
    /\ idx' = idx + 1
    /\ UNCHANGED <<bpc, alive, nlines, success_count>>

\* clean_subtitles wrote the cleaned text back: cleaned_count += 1
ItemCleaned ==
    /\ itemState' = [itemState EXCEPT ![idx] = "Succeeded"]
    /\ report' = [report EXCEPT ![idx] = "success"]
    /\ artifact' = [artifact EXCEPT ![idx] = "new"]
    /\ success_count' = success_count + 1
    /\ idx' = idx + 1
    /\ UNCHANGED <<bpc, alive, nlines, spawns>>

\* subprocess.Popen / subprocess.run created the tool's child
ItemSpawned(probes) ==
    /\ itemState' = [itemState EXCEPT ![idx] = "Running"]
    /\ spawns' = [spawns EXCEPT ![idx] = probes + 1]
    /\ alive' = alive + 1
    /\ bpc' = "reading"
    /\ nlines' = 0
    /\ UNCHANGED <<idx, report, success_count>>

\* the safe point at the head of the item loop: no pipeline reads the stop flag
StopObserved == FALSE

\* the item's output is on disk: out_file, the .srt beside the video, the
\* downloaded episode; for a translation the .srt together with its _OG backup
ArtifactExists(p, i) ==
    IF p = "translate_subtitles" THEN og[i] /\ artifact[i] # "none"
                                 ELSE artifact[i] # "none"

\* whether the iteration for an item whose artifact is there goes on to run it
RunsDespiteArtifact(p) == ~HasSkipCheck(p)

\* progress_callback(idx, total, name) through ScriptWorker.run: the signal is
\* emitted unless stop was requested
ProgressEmitted(i) == IF stop THEN emitted ELSE Append(emitted, i)

\* one iteration of the item loop, from its head to the creation of the tool's
\* child or to its continue
pipeline_item_begin ==
    /\ bpc = "loop" /\ idx <= total_videos
    /\ ~StopObserved
    /\ existedBefore' = [existedBefore EXCEPT ![idx] = ArtifactExists(pipeline, idx)]
    /\ UNCHANGED <<pipeline, total_videos, tool, input, hadLines, reportLines, stop,
                   stopLimit, returned, returncode>>
    /\ CASE pipeline = "clean_subtitles" ->
                /\ UNCHANGED og
                /\ IF ~input[idx]
                   THEN ItemSettled("Failed", "exception", 0) /\ UNCHANGED artifact
                   ELSE IF artifact[idx] # "none"
                   THEN ItemSettled("Skipped", "skip", 0) /\ UNCHANGED artifact
                   ELSE ItemCleaned
         [] pipeline = "transcribe_video_time_range" ->
                /\ UNCHANGED <<artifact, og>>
                /\ IF ~tool THEN ItemSettled("Failed", "exception", 0)
                   ELSE \/ ItemSettled("Failed", "failure", 1)
                        \/ ItemSpawned(1)
         [] pipeline = "download_episodes" ->
                /\ UNCHANGED <<artifact, og>>
                /\ IF ~tool /\ ~UsesShell(pipeline)
                   THEN ItemSettled("Failed", "exception", 0)
                   ELSE ItemSpawned(0)
         [] pipeline = "extract_subtitles" ->
                /\ UNCHANGED <<artifact, og>>
                /\ IF artifact[idx] # "none" /\ ~RunsDespiteArtifact(pipeline)
                   THEN ItemSettled("Skipped", "skip", 0)
                   ELSE IF ~tool THEN ItemSettled("Failed", "exception", 0)
                   ELSE ItemSpawned(0)
         [] pipeline = "translate_subtitles" ->
                IF ~og[idx] /\ artifact[idx] = "none"
                THEN \* srt_file.rename(og_file) raises
                     /\ ItemSettled("Failed", "exception", 0)
                     /\ UNCHANGED <<artifact, og>>
                ELSE /\ og' = [og EXCEPT ![idx] = TRUE]
                     /\ artifact' = [artifact EXCEPT ![idx] = IF og[idx] THEN @ ELSE "none"]
                     /\ IF ~tool
                        THEN ItemSettled("Failed", "failure", Probes(pipeline, tool))
                        ELSE ItemSpawned(Probes(pipeline, tool))
         [] pipeline = "process_video" ->
                /\ UNCHANGED <<artifact, og>>
                /\ IF artifact[idx] # "none" /\ ~RunsDespiteArtifact(pipeline)
                   THEN ItemSettled("Skipped", "skip", 0)
                   ELSE IF ~input[idx] THEN ItemSettled("Skipped", "skip", 0)
                   ELSE IF ~tool
                   THEN ItemSettled("Failed", "exception", Probes(pipeline, tool))
                   ELSE ItemSpawned(Probes(pipeline, tool))
         [] pipeline = "remux_mkv_with_srt_batch" ->
                /\ UNCHANGED <<artifact, og>>
                /\ IF ~input[idx] THEN ItemSettled("Failed", "failure", 0)
                   ELSE IF artifact[idx] # "none" /\ ~RunsDespiteArtifact(pipeline)
                   THEN ItemSettled("Skipped", IF LogsSkip(pipeline) THEN "skip" ELSE "none", 0)
                   ELSE IF ~tool THEN ItemSettled("Failed", "exception", 0)
                   ELSE ItemSpawned(0)
    /\ emitted' = ProgressEmitted(idx)
    /\ UNCHANGED observed

\* one line of the child's output is read and kept
pipeline_read_line ==
    /\ bpc = "reading"
    /\ nlines < MaxLines
    /\ nlines' = nlines + 1
    /\ UNCHANGED <<pipeline, total_videos, idx, bpc, tool, artifact, input, og, itemState,
                   existedBefore, spawns, alive, report, hadLines, reportLines,
                   success_count, stop, stopLimit, returned, returncode>>
    /\ \/ emitted' = emitted
       \/ pipeline = "process_video" /\ emitted' = ProgressEmitted(idx)
    /\ UNCHANGED observed

\* the children alive once the handler of an exception raised while reading has run
AliveAfterException(p, n) == IF UsesSubprocessRun(p) THEN n - 1 ELSE n

\* where the loop goes after the per-item exception handler
AfterException(i) == i + 1

\* reading the child's output raised (a decoding error, the timeout of remux)
pipeline_read_raise ==
    /\ bpc = "reading"
    /\ itemState' = [itemState EXCEPT ![idx] = "Failed"]
    /\ report' = [report EXCEPT ![idx] = "exception"]
    /\ hadLines' = nlines
    /\ reportLines' = ExceptionLines(pipeline, nlines)
    /\ alive' = AliveAfterException(pipeline, alive)
    /\ idx' = AfterException(idx)
    /\ bpc' = "loop"
    /\ nlines' = 0
    /\ UNCHANGED <<pipeline, total_videos, tool, artifact, input, og, existedBefore, spawns,
                   success_count, stop, stopLimit, returned, returncode>>
    /\ UNCHANGED <<emitted, observed>>

\* end of the child's output, process.wait(), the success test and its report
pipeline_item_end ==
    /\ bpc = "reading"
    /\ \E rc \in {0, 1}, wrote \in BOOLEAN :
        \* a shell that cannot find the tool exits non-zero and writes nothing
        /\ tool \/ (rc = 1 /\ ~wrote)
        /\ LET art == IF wrote THEN "new" ELSE artifact[idx]
               ok == ItemSucceeded(pipeline, rc, art)
               warned == pipeline = "download_episodes" /\ rc = 0
           IN
           /\ returncode' = rc
           /\ artifact' = [artifact EXCEPT ![idx] = art]
           /\ itemState' = [itemState EXCEPT ![idx] = IF ok THEN "Succeeded" ELSE "Failed"]
           /\ success_count' = IF ok THEN success_count + 1 ELSE success_count
           /\ report' = [report EXCEPT ![idx] =
                            IF ok THEN "success" ELSE IF warned THEN "warning" ELSE "failure"]
           /\ hadLines' = IF ok THEN hadLines ELSE nlines
           /\ reportLines' = IF ok THEN reportLines
                             ELSE IF warned THEN 0 ELSE FailureLines(pipeline, nlines)
    /\ alive' = alive - 1
    /\ idx' = idx + 1
    /\ bpc' = "loop"
    /\ nlines' = 0
    /\ UNCHANGED <<pipeline, total_videos, tool, input, og, existedBefore, spawns, stop,
                   stopLimit, returned>>
    /\ UNCHANGED <<emitted, observed>>

\* the loop is over: the summary and the return value
pipeline_return ==
    /\ bpc = "loop" /\ idx > total_videos
    /\ bpc' = "done"
    /\ returned' = PipelineResult(pipeline, success_count)
    /\ UNCHANGED <<pipeline, total_videos, idx, tool, artifact, input, og, itemState,
                   existedBefore, spawns, alive, nlines, report, hadLines, reportLines,
                   success_count, stop, stopLimit, returncode>>
    /\ UNCHANGED <<emitted, observed>>

\* stop_operation on the job: ScriptWorker.stop sets the flag
request_cancel ==
    /\ bpc \in {"loop", "reading"}
    /\ ~stop
    /\ stop' = TRUE
    /\ stopLimit' = IF bpc = "reading" THEN idx ELSE idx - 1
    /\ UNCHANGED <<pipeline, total_videos, idx, bpc, tool, artifact, input, og, itemState,
                   existedBefore, spawns, alive, nlines, report, hadLines, reportLines,
                   success_count, returned, returncode>>
    /\ UNCHANGED <<emitted, observed>>

\* the grace timer fires while the job's thread still runs: QThread.terminate()
grace_timeout ==
    /\ stop
    /\ bpc \in {"loop", "reading"}
    /\ bpc' = "killed"
    /\ UNCHANGED <<pipeline, total_videos, idx, tool, artifact, input, og, itemState,
                   existedBefore, spawns, alive, nlines, report, hadLines, reportLines,
                   success_count, stop, stopLimit, returned, returncode>>
    /\ UNCHANGED <<emitted, observed>>

\* a child the pipeline no longer reads runs to its end by itself
leaked_child_exit ==
    /\ alive > (IF bpc = "reading" THEN 1 ELSE 0)
    /\ alive' = alive - 1
    /\ UNCHANGED <<pipeline, total_videos, idx, bpc, tool, artifact, input, og, itemState,
                   existedBefore, spawns, nlines, report, hadLines, reportLines,
                   success_count, stop, stopLimit, returned, returncode>>
    /\ UNCHANGED <<emitted, observed>>

\* the main thread's event loop hands the next queued progress_update to
\* on_progress_update
observe ==
    /\ Len(observed) < Len(emitted)
    /\ observed' = Append(observed, emitted[Len(observed) + 1])
    /\ UNCHANGED <<pipeline, total_videos, idx, bpc, tool, artifact, input, og, itemState,
                   existedBefore, spawns, alive, nlines, report, hadLines, reportLines,
                   success_count, stop, stopLimit, returned, returncode, emitted>>

BatchNext ==
    \/ observe /\ UNCHANGED <<runnerVars, progVars, pureVars>>
    \/ pipeline_item_begin /\ UNCHANGED <<runnerVars, progVars, pureVars>>
    \/ pipeline_read_line /\ UNCHANGED <<runnerVars, progVars, pureVars>>
    \/ pipeline_read_raise /\ UNCHANGED <<runnerVars, progVars, pureVars>>
    \/ pipeline_item_end /\ UNCHANGED <<runnerVars, progVars, pureVars>>
    \/ pipeline_return /\ UNCHANGED <<runnerVars, progVars, pureVars>>
    \/ request_cancel /\ UNCHANGED <<runnerVars, progVars, pureVars>>
    \/ grace_timeout /\ UNCHANGED <<runnerVars, progVars, pureVars>>
    \/ leaked_child_exit /\ UNCHANGED <<runnerVars, progVars, pureVars>>

(***************************************************************************)
(* Progress events of a process_video batch and the bar they drive.        *)
(***************************************************************************)
\* percentage = min(100, max(0, (current_time_seconds / video_duration_seconds) * 100)),
\* as "%.1f" prints it and on_progress_update parses it back: tenths of a percent
Percentage(t, d) == Min(1000, Max(0, (2000 * t + d) \div (2 * d)))

ProgressInit ==
    /\ ptotal \in 1..MaxBatch
    /\ pidx = 0
    /\ video_duration_seconds = 0
    /\ current_time_seconds = 0
    /\ file_percentage = NoPct
    /\ progress_bar = 0

\* the display at rest, for the specifications that do not drive it
ProgressIdle ==
    /\ ptotal = 1
    /\ pidx = 0
    /\ video_duration_seconds = 0
    /\ current_time_seconds = 0
    /\ file_percentage = NoPct
    /\ progress_bar = 0

\* progress_callback(idx, total, video_file.name) at the head of an item, then
\* the duration probe
progress_item_start ==
    /\ pidx < ptotal
    /\ pidx' = pidx + 1
    /\ \E d \in 0..MaxDuration : video_duration_seconds' = d
    /\ current_time_seconds' = 0
    /\ file_percentage' = NoPct
    /\ progress_bar' = on_progress_update(progress_bar, pidx + 1, ptotal, NoPct)
    /\ UNCHANGED ptotal

\* the progress line without the test of the duration: an unknown duration
\* reported as 0 %
progress_line_unknown_duration_reported ==
    /\ pidx >= 1
    /\ \E t \in current_time_seconds..MaxTime :
        LET pct == IF video_duration_seconds > 0
                   THEN Percentage(t, video_duration_seconds) ELSE 0 IN
        /\ current_time_seconds' = t
        /\ file_percentage' = pct
        /\ progress_bar' = on_progress_update(progress_bar, pidx, ptotal, pct)
    /\ UNCHANGED <<ptotal, pidx, video_duration_seconds>>

\* an ffmpeg progress line at least 2 s after the last reported one:
\* progress_callback(idx, total, "<name> (<percentage>%)")
progress_line ==
    /\ pidx >= 1
    /\ video_duration_seconds > 0
    /\ \E t \in current_time_seconds..MaxTime :
        /\ current_time_seconds' = t
        /\ file_percentage' = Percentage(t, video_duration_seconds)
        /\ progress_bar' = on_progress_update(progress_bar, pidx, ptotal,
                                              Percentage(t, video_duration_seconds))
    /\ UNCHANGED <<ptotal, pidx, video_duration_seconds>>

\* an ffmpeg progress line that should_update holds back, or one read while the
\* duration is unknown: no event
progress_line_unreported ==
    /\ pidx >= 1
    /\ \E t \in current_time_seconds..MaxTime :
        /\ t > current_time_seconds
        /\ current_time_seconds' = t
    /\ UNCHANGED <<ptotal, pidx, video_duration_seconds, file_percentage, progress_bar>>

ProgressNext ==
    \/ progress_item_start /\ UNCHANGED <<runnerVars, batchVars, pureVars>>
    \/ progress_line /\ UNCHANGED <<runnerVars, batchVars, pureVars>>
    \/ progress_line_unreported /\ UNCHANGED <<runnerVars, batchVars, pureVars>>

\* no call in the specifications that do not make one
PureIdle ==
    /\ fn = "none"
    /\ arg = <<>>
    /\ out = <<>>
    /\ called = FALSE

InitBatch == RunnerInit /\ BatchInit /\ ProgressIdle /\ PureIdle

SpecBatch == InitBatch /\ [][BatchNext]_vars

InitProgress == RunnerInit /\ BatchIdle /\ ProgressInit /\ PureIdle

SpecProgress == InitProgress /\ [][ProgressNext]_vars

(***************************************************************************)
(* The pure functions.  A string is a sequence of one-character strings.   *)
(***************************************************************************)
Chars == {"0", "1", "3", "-", ",", " ", "x"}
Digits == <<"0", "1", "2", "3", "4", "5", "6", "7", "8", "9">>

\* the strings of length n over Chars
StringsOfLen(n) == [1..n -> Chars]
Strings == UNION {StringsOfLen(n) : n \in 0..MaxStrLen}

Contains(str, c) == \E k \in 1..Len(str) : str[k] = c

\* str.split(sep) for a one-character separator
RECURSIVE split(_, _)
split(str, sep) ==
    IF ~Contains(str, sep) THEN <<str>>
    ELSE LET k == CHOOSE k \in 1..Len(str) :
                      str[k] = sep /\ \A j \in 1..(k - 1) : str[j] # sep
         IN  <<SubSeq(str, 1, k - 1)>> \o split(SubSeq(str, k + 1, Len(str)), sep)

\* str.strip()
RECURSIVE strip(_)
strip(str) ==
    IF str = <<>> THEN str
    ELSE IF Head(str) = " " THEN strip(Tail(str))
    ELSE IF str[Len(str)] = " " THEN strip(SubSeq(str, 1, Len(str) - 1))
    ELSE str

DigitValue(c) == (CHOOSE k \in 1..10 : Digits[k] = c) - 1
IsDigit(c) == \E k \in 1..10 : Digits[k] = c

\* whether int(str) returns: surrounding blanks stripped, then digits only
\* (a sign cannot reach int() here: '+' is not typed, '-' was split away)
IntParses(str) == LET t == strip(str) IN t # <<>> /\ \A k \in 1..Len(t) : IsDigit(t[k])

RECURSIVE DecimalValue(_)
DecimalValue(t) ==
    IF t = <<>> THEN 0
    ELSE 10 * DecimalValue(SubSeq(t, 1, Len(t) - 1)) + DigitValue(t[Len(t)])

\* int(str) where it returns
int(str) == DecimalValue(strip(str))

\* list(range(a, b))
range(a, b) == IF a >= b THEN <<>> ELSE [k \in 1..(b - a) |-> a + k - 1]

\* the exceptions the two handlers of parse_episode_range catch
CaughtInRange == {"ValueError", "IndexError"}
CaughtInSingle == {"ValueError"}

\* the range branch with range(start_num, end_num): the end left out
RangePart_end_excluded(part) ==
    LET pieces == split(part, "-") IN
    IF Len(pieces) # 2 THEN [raises |-> "ValueError", items |-> <<>>]
    ELSE IF ~IntParses(pieces[1]) \/ ~IntParses(pieces[2])
    THEN [raises |-> "ValueError", items |-> <<>>]
    ELSE [raises |-> "none", items |-> range(int(pieces[1]), int(pieces[2]))]

\* the body of the try for a part with a dash: what it appends, or what it raises
RangePart(part) ==
    LET pieces == split(part, "-") IN
    IF Len(pieces) # 2 THEN [raises |-> "ValueError", items |-> <<>>]
    ELSE IF ~IntParses(pieces[1]) \/ ~IntParses(pieces[2])
    THEN [raises |-> "ValueError", items |-> <<>>]
    ELSE [raises |-> "none", items |-> range(int(pieces[1]), int(pieces[2]) + 1)]

\* the body of the try for a part without a dash
SinglePart(part) ==
    IF ~IntParses(part) THEN [raises |-> "ValueError", items |-> <<>>]
    ELSE [raises |-> "none", items |-> <<int(part)>>]

\* one iteration of the loop over the parts: the list to append, and the
\* exception that leaves the function if no handler catches it
EpisodePart(rawpart) ==
    LET part == strip(rawpart)
        r == IF Contains(part, "-") THEN RangePart(part) ELSE SinglePart(part)
        caught == IF Contains(part, "-") THEN CaughtInRange ELSE CaughtInSingle
    IN  IF r.raises \in caught THEN [raises |-> "none", items |-> <<>>] ELSE r

RECURSIVE EpisodeLoop(_, _)
EpisodeLoop(parts, episodes) ==
    IF parts = <<>> THEN [raises |-> "none", items |-> episodes]
    ELSE LET r == EpisodePart(Head(parts)) IN
         IF r.raises # "none" THEN [raises |-> r.raises, items |-> <<>>]
         ELSE EpisodeLoop(Tail(parts), episodes \o r.items)

parse_episode_range(range_str) == EpisodeLoop(split(range_str, ","), <<>>)

InitParse ==
    /\ RunnerInit /\ BatchIdle /\ ProgressIdle
    /\ fn = "parse_episode_range"
    /\ arg \in Strings
    /\ out = <<>>
    /\ called = FALSE

call_parse_episode_range ==
    /\ fn = "parse_episode_range" /\ ~called
    /\ out' = parse_episode_range(arg)
    /\ called' = TRUE
    /\ UNCHANGED <<fn, arg, runnerVars, batchVars, progVars>>

SpecParse == InitParse /\ [][call_parse_episode_range]_vars

\* download_episodes, the identifiers: the list after the extension by the
\* integers that follow its last element, end left out
ExtendedNumbers_from_last(numbers, nlines_) ==
    IF Len(numbers) < nlines_
    THEN LET last_num == numbers[Len(numbers)] IN
         numbers \o range(last_num, last_num + (nlines_ - Len(numbers)))
    ELSE numbers

\* episode_numbers.extend(range(last_num + 1, ...)) when the list is shorter
\* than the command lines
ExtendedNumbers(numbers, nlines_) ==
    IF Len(numbers) < nlines_
    THEN LET last_num == numbers[Len(numbers)] IN
         numbers \o range(last_num + 1, last_num + 1 + (nlines_ - Len(numbers)))
    ELSE numbers

\* episode_numbers as the loop over the command lines finds it
episode_numbers(episode_spec, nlines_) ==
    LET parsed == parse_episode_range(episode_spec).items
        numbers == IF parsed = <<>> THEN range(1, nlines_ + 1) ELSE parsed
    IN  ExtendedNumbers(numbers, nlines_)

\* episode_number of the command line at index i of enumerate(lines), i from 0
episode_number(numbers, i) ==
    IF i < Len(numbers) THEN numbers[i + 1]
    ELSE numbers[Len(numbers)] + i - Len(numbers) + 1

\* the identifiers of the command lines, in the order of the lines
download_episodes_identifiers(episode_spec, nlines_) ==
    LET numbers == episode_numbers(episode_spec, nlines_) IN
    [k \in 1..nlines_ |-> episode_number(numbers, k - 1)]

InitIdentifiers ==
    /\ RunnerInit /\ BatchIdle /\ ProgressIdle
    /\ fn = "download_episodes"
    /\ arg \in [episode_spec : Strings, lines : 1..MaxCmds]
    /\ out = <<>>
    /\ called = FALSE

call_download_episodes ==
    /\ fn = "download_episodes" /\ ~called
    /\ out' = download_episodes_identifiers(arg.episode_spec, arg.lines)
    /\ called' = TRUE
    /\ UNCHANGED <<fn, arg, runnerVars, batchVars, progVars>>

SpecIdentifiers == InitIdentifiers /\ [][call_download_episodes]_vars

(***************************************************************************)
(* The log filters.  A tool output line is the set of the markers its text *)
(* contains; the blank line contains none.                                 *)
(***************************************************************************)
\* substrings that put a line in the error family of clean_log_line: one of
\* the keywords in the lowercased text
ErrorMarkers == {"failed", "ERROR"}

\* the markers of the lines drawn as inputs; "U+2501" is the glyph of the
\* progress bar, "U+2705" the check mark
Markers ==
    ErrorMarkers \cup {"U+2501", "Validating token size...", "INFO",
                       "Translating: 50% (1/2) | Thinking",
                       "Translating: 100% (2/2) | Thinking"}

\* a line carries at most one progress field
LogLines ==
    {l \in SUBSET Markers : ~({"Translating: 50% (1/2) | Thinking",
                               "Translating: 100% (2/2) | Thinking"} \subseteq l)}

\* clean_log_line returning None
None == [form |-> "none", text |-> {}]

is_error(line) == line \cap ErrorMarkers # {}

\* clean_log_line: the message to log, with the family that formed it
clean_log_line(line) ==
    IF line = {} THEN None
    ELSE IF is_error(line) THEN [form |-> "warning", text |-> line]
    ELSE IF "Validating token size..." \in line THEN None
    ELSE IF "Token size validated. Translating..." \in line THEN None
    ELSE IF "Starting with API Key" \in line THEN None
    ELSE IF "Starting translation of 1 lines..." \in line
    THEN [form |-> "started", text |-> {"Starting translation of 1 lines..."}]
    ELSE IF "Translating: 50% (1/2) | Thinking" \in line
    THEN [form |-> "progress", text |-> {"Progress: 50% (1/2 lines)", "Thinking..."}]
    ELSE IF "Translating: 100% (2/2) | Thinking" \in line
    THEN [form |-> "progress", text |-> {"Progress: 100% (2/2 lines)", "Thinking..."}]
    ELSE IF "U+2705" \in line THEN [form |-> "success", text |-> {}]
    ELSE [form |-> "plain", text |-> line]

\* the reading loop of translate_subtitles: what log_callback gets for each
\* line of the stream, None for a line that is not logged
RECURSIVE translate_subtitles_log(_, _)
translate_subtitles_log(lines, last_progress_line) ==
    IF lines = <<>> THEN <<>>
    ELSE LET cleaned_line == clean_log_line(Head(lines)) IN
         IF cleaned_line # None /\ cleaned_line # last_progress_line
         THEN <<cleaned_line>> \o translate_subtitles_log(Tail(lines), cleaned_line)
         ELSE <<None>> \o translate_subtitles_log(Tail(lines), last_progress_line)

\* should_log of the reading loop of download_episodes
should_log(line_output) ==
    /\ "U+2501" \notin line_output
    /\ "The process cannot access the file" \notin line_output
    /\ line_output \cap {"INFO", "WARN", "ERROR", "Selected streams",
                         "Start downloading", "Downloaded", "Muxing", "Done"} # {}

\* the reading loop of download_episodes: the line is logged as it is, with
\* two blanks in front
download_episodes_log(lines) ==
    [k \in 1..Len(lines) |->
        IF lines[k] # {} /\ should_log(lines[k])
        THEN [form |-> "plain", text |-> lines[k]]
        ELSE None]

InitLog ==
    /\ RunnerInit /\ BatchIdle /\ ProgressIdle
    /\ fn \in {"translate_subtitles", "download_episodes"}
    /\ arg \in UNION {[1..n -> LogLines] : n \in 1..MaxLogLines}
    /\ out = <<>>
    /\ called = FALSE

read_translate_subtitles ==
    /\ fn = "translate_subtitles" /\ ~called
    /\ out' = translate_subtitles_log(arg, None)
    /\ called' = TRUE
    /\ UNCHANGED <<fn, arg, runnerVars, batchVars, progVars>>

read_download_episodes ==
    /\ fn = "download_episodes" /\ ~called
    /\ out' = download_episodes_log(arg)
    /\ called' = TRUE
    /\ UNCHANGED <<fn, arg, runnerVars, batchVars, progVars>>

LogNext ==
    \/ read_translate_subtitles
    \/ read_download_episodes

SpecLog == InitLog /\ [][LogNext]_vars

(***************************************************************************)
(* parse_ffmpeg_time.  A float is held as an integer count of hundredths.   *)
(***************************************************************************)
\* the text after an optional leading minus sign
Unsigned(t) == IF t # <<>> /\ Head(t) = "-" THEN Tail(t) ELSE t

AllDigits(t) == \A k \in 1..Len(t) : IsDigit(t[k])

\* whether float(str) returns: blanks stripped, an optional sign, digits with
\* at most one point and at least one digit (no exponent, inf or nan is typed)
FloatParses(str) ==
    LET pieces == split(Unsigned(strip(str)), ".") IN
    /\ Len(pieces) <= 2
    /\ \A k \in 1..Len(pieces) : AllDigits(pieces[k])
    /\ \E k \in 1..Len(pieces) : pieces[k] # <<>>

\* the first two digits after the point, as hundredths
FractionHundredths(t) ==
    IF t = <<>> THEN 0
    ELSE IF Len(t) = 1 THEN 10 * DigitValue(t[1])
    ELSE 10 * DigitValue(t[1]) + DigitValue(t[2])

\* float(str) where it returns, in hundredths
float(str) ==
    LET t == strip(str)
        pieces == split(Unsigned(t), ".")
        magnitude == 100 * DecimalValue(pieces[1])
                       + (IF Len(pieces) = 2 THEN FractionHundredths(pieces[2]) ELSE 0)
    IN  IF t # <<>> /\ Head(t) = "-" THEN 0 - magnitude ELSE magnitude

\* return None
ReturnsNone == [raises |-> "none", null |-> TRUE, hundredths |-> 0]

Returns(v) == [raises |-> "none", null |-> FALSE, hundredths |-> v]

\* parse_ffmpeg_time: every float() sits in the try, ValueError is caught
parse_ffmpeg_time(time_str) ==
    LET parts == split(strip(time_str), ":") IN
    IF Len(parts) = 3
    THEN IF \A k \in 1..3 : FloatParses(parts[k])
         THEN Returns(float(parts[1]) * 3600 + float(parts[2]) * 60 + float(parts[3]))
         ELSE ReturnsNone
    ELSE IF Len(parts) = 2
    THEN IF \A k \in 1..2 : FloatParses(parts[k])
         THEN Returns(float(parts[1]) * 60 + float(parts[2]))
         ELSE ReturnsNone
    ELSE IF FloatParses(strip(time_str)) THEN Returns(float(strip(time_str)))
    ELSE ReturnsNone

\* the texts between the colons of the time strings drawn as inputs
FieldTexts ==
    { <<"0", "0">>, <<"0", "1">>, <<"3", "0", ".", "5", "0">>, <<"9", "0">>,
      <<>>, <<"x">>, <<"-", "1">> }

RECURSIVE JoinColon(_)
JoinColon(fields) ==
    IF Len(fields) = 1 THEN fields[1]
    ELSE fields[1] \o <<":">> \o JoinColon(Tail(fields))

TimeStrings == {JoinColon(f) : f \in UNION {[1..n -> FieldTexts] : n \in 1..MaxFields}}

InitTime ==
    /\ RunnerInit /\ BatchIdle /\ ProgressIdle
    /\ fn = "parse_ffmpeg_time"
    /\ arg \in TimeStrings
    /\ out = <<>>
    /\ called = FALSE

call_parse_ffmpeg_time ==
    /\ fn = "parse_ffmpeg_time" /\ ~called
    /\ out' = parse_ffmpeg_time(arg)
    /\ called' = TRUE
    /\ UNCHANGED <<fn, arg, runnerVars, batchVars, progVars>>

SpecTime == InitTime /\ [][call_parse_ffmpeg_time]_vars

(***************************************************************************)
(* The ETA of process_video.  Times are whole seconds, the speed is held   *)
(* in tenths; NoneNum stands for None.                                     *)
(***************************************************************************)
NoneNum == -1000000

Calculating == [text |-> "Calculating...", h |-> 0, m |-> 0, s |-> 0]

\* eta_str = None
NoEta == [text |-> "None", h |-> 0, m |-> 0, s |-> 0]

\* format_eta
format_eta(seconds) ==
    IF seconds < 0 THEN Calculating
    ELSE LET hours == seconds \div 3600
             minutes == (seconds % 3600) \div 60
             secs == seconds % 60
         IN  IF hours > 0 THEN [text |-> "Nh Nm Ns", h |-> hours, m |-> minutes, s |-> secs]
             ELSE IF minutes > 0 THEN [text |-> "Nm Ns", h |-> 0, m |-> minutes, s |-> secs]
             ELSE [text |-> "Ns", h |-> 0, m |-> 0, s |-> secs]

\* floor of num / den; the signs as Python's // gives them, den > 0
FloorDiv(num, den) ==
    IF num >= 0 THEN num \div den ELSE 0 - (((0 - num) + den - 1) \div den)

\* eta_str after a progress line, from the duration the probe gave, the time
\* parsed so far and the speed parsed so far
eta_str(d, t, speed) ==
    IF d # NoneNum /\ d # 0 /\ t # NoneNum
    THEN IF speed # NoneNum /\ speed # 0 /\ speed > 0
         THEN format_eta(FloorDiv((d - t) * 10, speed))
         ELSE Calculating
    ELSE NoEta

DurationValues == {NoneNum, 0, 50, 100, 4000}
TimeValues == {NoneNum, 0, 40, 100, 130}
SpeedValues == {NoneNum, -10, 0, 5, 10, 20}

InitEta ==
    /\ RunnerInit /\ BatchIdle /\ ProgressIdle
    /\ fn = "eta_str"
    /\ arg \in [d : DurationValues, t : TimeValues, speed : SpeedValues]
    /\ out = <<>>
    /\ called = FALSE

progress_line_eta ==
    /\ fn = "eta_str" /\ ~called
    /\ out' = eta_str(arg.d, arg.t, arg.speed)
    /\ called' = TRUE
    /\ UNCHANGED <<fn, arg, runnerVars, batchVars, progVars>>

SpecEta == InitEta /\ [][progress_line_eta]_vars

(***************************************************************************)
(* The files of translate_subtitles.  The content of a file is a tag; an   *)
(* input's original content is tagged with its own path.                   *)
(***************************************************************************)
InputFiles == {"a.spa.srt", "a.fra.srt", "b.srt"}

\* base_name: the stem without a three-letter language suffix
base_name(srt_file) == IF srt_file = "b.srt" THEN "b" ELSE "a"

\* og_file: <base_name>_OG.srt
og_file(srt_file) == IF base_name(srt_file) = "a" THEN "a_OG.srt" ELSE "b_OG.srt"

\* final_srt_file with use_iso639 and the target code "eng"
final_srt_file(srt_file) == IF base_name(srt_file) = "a" THEN "a.eng.srt" ELSE "b.eng.srt"

Paths == InputFiles \cup {"a_OG.srt", "b_OG.srt", "a.eng.srt", "b.eng.srt"}

\* Path.rename on POSIX: the target is replaced
Rename(fs, from, to) == [fs EXCEPT ![to] = fs[from], ![from] = "none"]

\* the lists of selected files: some of the inputs, in some order
Selections ==
    {sel \in UNION {[1..n -> InputFiles] : n \in 1..MaxBatch} :
        \A i, j \in 1..Len(sel) : i # j => sel[i] # sel[j]}

\* if not og_file.exists(): srt_file.rename(og_file)
Backup(fs, srt_file) ==
    IF fs[og_file(srt_file)] = "none" THEN Rename(fs, srt_file, og_file(srt_file)) ELSE fs

\* what gst leaves at its -o path: the translation, nothing, or a part of it
ToolOutcomes == {"translated", "none", "partial"}

\* the files after the item's tool has ended and the item was verified
AfterTool(fs, srt_file, outcome, use_iso639) ==
    LET written == IF outcome = "none" THEN fs ELSE [fs EXCEPT ![srt_file] = outcome]
        translation_success == outcome = "translated"
    IN  IF translation_success /\ use_iso639 /\ srt_file # final_srt_file(srt_file)
        THEN Rename(written, srt_file, final_srt_file(srt_file))
        ELSE written

InitFiles ==
    /\ RunnerInit /\ BatchIdle /\ ProgressIdle
    /\ fn = "translate_subtitles_files"
    /\ arg \in Selections
    /\ \E oga, ogb \in {"none", "older"}, iso \in BOOLEAN :
        out = [fs |-> [q \in Paths |->
                          IF q \in InputFiles THEN q
                          ELSE IF q = "a_OG.srt" THEN oga
                          ELSE IF q = "b_OG.srt" THEN ogb
                          ELSE "none"],
               done |-> {},
               use_iso639 |-> iso]
    /\ called = FALSE

\* one turn of the loop over srt_files: the backup, find_gst_command, the
\* tool, the verification and the renaming
translate_item ==
    /\ fn = "translate_subtitles_files" /\ arg # <<>>
    /\ LET srt_file == Head(arg)
           backed == Backup(out.fs, srt_file) IN
       \E gst_cmd \in BOOLEAN, outcome \in ToolOutcomes :
           out' = [out EXCEPT
                     !.fs = IF gst_cmd
                            THEN AfterTool(backed, srt_file, outcome, out.use_iso639)
                            ELSE backed,
                     !.done = @ \cup {srt_file}]
    /\ arg' = Tail(arg)
    /\ called' = TRUE
    /\ UNCHANGED <<fn, runnerVars, batchVars, progVars>>

SpecFiles == InitFiles /\ [][translate_item]_vars

(***************************************************************************)
(* extract_m3u8_urls.  A HAR entry is the kind of its request URL and the  *)
(* video id in it; a title and a URL are named by the position of the      *)
(* entry they come from, 0 for None.                                       *)
(***************************************************************************)
VideoIds == {"2", "02", "10"}

\* int(video_id)
IdValue(video_id) == IF video_id = "10" THEN 10 ELSE 2

\* "analytics": title=...&mediaResource=.../<id>.m3u8&...
\* "analytics_last": the same with mediaResource as the last parameter
\* "manifest": .../<id>.m3u8 or .../<id>.m3u8?...
\* "variant": a URL with /<id>.m3u8 and '-manifest-' in it
\* "other": a URL without .m3u8
UrlKinds == {"analytics", "analytics_last", "manifest", "variant", "other"}

HarEntries == [kind : UrlKinds \ {"other"}, id : VideoIds] \cup {[kind |-> "other", id |-> "2"]}

\* 'title=' in url and 'mediaResource=' in url, with /(\d+)\.m3u8 and a title
IsAnalytics(e) == e.kind \in {"analytics", "analytics_last"}

\* '.m3u8' in url, /(\d+)\.m3u8($|\?) matches and '-manifest-' is not in url
IsMainManifest(e) == e.kind \in {"manifest", "analytics_last"}

\* the dict after the title block of the loop body for the entry at position k;
\* keys holds the insertion order
AfterTitle(eps, e, k) ==
    IF IsAnalytics(e) /\ e.id \notin DOMAIN eps.data
    THEN [data |-> [i \in DOMAIN eps.data \cup {e.id} |->
                       IF i = e.id THEN [title |-> k, url |-> 0] ELSE eps.data[i]],
          keys |-> Append(eps.keys, e.id)]
    ELSE eps

\* the dict after the URL block
AfterUrl(eps, e, k) ==
    IF IsMainManifest(e)
    THEN IF e.id \in DOMAIN eps.data
         THEN [eps EXCEPT !.data[e.id].url = k]
         ELSE [data |-> [i \in DOMAIN eps.data \cup {e.id} |->
                            IF i = e.id THEN [title |-> 0, url |-> k] ELSE eps.data[i]],
               keys |-> Append(eps.keys, e.id)]
    ELSE eps

RECURSIVE EntriesLoop(_, _, _)
EntriesLoop(entries, k, eps) ==
    IF k > Len(entries) THEN eps
    ELSE EntriesLoop(entries, k + 1, AfterUrl(AfterTitle(eps, entries[k], k), entries[k], k))

\* sorted(keys, key=int): ascending, equal keys in the order of insertion
SortedByInt(keys) ==
    SelectSeq(keys, LAMBDA i : IdValue(i) = 2) \o SelectSeq(keys, LAMBDA i : IdValue(i) = 10)

extract_m3u8_urls(entries) ==
    LET eps == EntriesLoop(entries, 1, [data |-> <<>>, keys |-> <<>>])
        sorted_ids == SortedByInt(eps.keys)
    IN  [n \in 1..Len(sorted_ids) |->
            [video_id |-> sorted_ids[n],
             title |-> eps.data[sorted_ids[n]].title,
             url |-> eps.data[sorted_ids[n]].url]]

InitHar ==
    /\ RunnerInit /\ BatchIdle /\ ProgressIdle
    /\ fn = "extract_m3u8_urls"
    /\ arg \in UNION {[1..n -> HarEntries] : n \in 1..MaxEntries}
    /\ out = <<>>
    /\ called = FALSE

call_extract_m3u8_urls ==
    /\ fn = "extract_m3u8_urls" /\ ~called
    /\ out' = extract_m3u8_urls(arg)
    /\ called' = TRUE
    /\ UNCHANGED <<fn, arg, runnerVars, batchVars, progVars>>

SpecHar == InitHar /\ [][call_extract_m3u8_urls]_vars

Init == RunnerInit /\ BatchIdle /\ ProgressIdle /\ PureIdle

Next ==
    \/ run_script
    \/ transcribe_from_tab
    \/ transcribe_time_range
    \/ stop_operation
    \/ force_terminate_worker
    \/ deliver
    \/ \E w \in WorkerIds : item_skip(w)
    \/ \E w \in WorkerIds : item_begin(w)
    \/ \E w \in WorkerIds : item_finish(w)
    \/ \E w \in WorkerIds : item_except(w)
    \/ \E w \in WorkerIds : run_finish(w)
    \/ \E w \in WorkerIds : thread_exit(w)
    \/ child_exit

Spec == Init /\ [][Next]_vars

(***************************************************************************)
(* The claims.                                                             *)
(***************************************************************************)
Running == {w \in WorkerIds : wstate[w] = "running"}

\* C1: mutual exclusion of the job slot - in every reachable state at most one
\* worker thread is running, whichever entry point (run_script,
\* transcribe_from_tab, transcribe_time_range) the submits came through.
C1_AtMostOneRunning == Cardinality(Running) <= 1

\* C2: cooperative cancellation - once the stop flag is set the pipeline starts
\* no further batch item: every item after the one being run when the flag was
\* set stays Pending, so a batch cancelled at once completes at most one item.
C2_NoItemAfterStop ==
    stop =>
        /\ \A i \in Items : i > stopLimit => itemState[i] = "Pending"
        /\ stopLimit <= 1 => success_count <= 1

\* C3: forced cancellation - after the grace timer has force-terminated a job,
\* no tool child process spawned by that job is still alive.
C3_NoChildAfterForceKill ==
    \A w \in WorkerIds : wstate[w] = "terminated" => children[w] = 0

\* C4: at most one tool child process of the job is alive at any instant, also
\* after reading an item's output raised an exception.
C4_AtMostOneChild == alive <= 1

\* C5: the combined percentage shown never decreases from one progress event to
\* the next, item-start events and in-item events alike.
C5_NonDecreasing == [][progress_bar' >= progress_bar]_vars

\* the whole percent of 100 * ((i-1)/N + f/N), f in tenths of a percent
SpecifiedPercent(i, n, pct) == ((i - 1) * 1000 + pct) \div (10 * n)

\* the per-item fraction of an event: 0 when it carries no percentage
Fraction(pct) == IF pct = NoPct THEN 0 ELSE pct

\* C6: after every progress event the combined percentage is
\* 100 * ((item_index-1)/N + f/N), f being 0 for an event without a percentage.
C6_CombinedFormula ==
    pidx >= 1 => progress_bar = SpecifiedPercent(pidx, ptotal, Fraction(file_percentage))

\* C7: the combined percentage is exactly 100 when the final item reports 100%,
\* and below 100 after every other event.
C7_HundredOnlyAtEnd ==
    pidx >= 1 =>
        IF pidx = ptotal /\ file_percentage = 1000
        THEN progress_bar = 100
        ELSE progress_bar < 100

\* C8: skip-if-exists - in every batch pipeline an item whose output artifact
\* exists before it is run is marked Skipped, spawns no subprocess and leaves
\* the artifact as it was.
C8_SkipIfExists ==
    \A i \in Items :
        existedBefore[i] =>
            /\ itemState[i] = "Skipped"
            /\ spawns[i] = 0
            /\ artifact[i] = "old"

AllExistedBefore == \A i \in 1..total_videos : existedBefore[i]

\* C9: idempotent re-run - a batch run when every item's output artifact exists
\* spawns zero subprocesses (probes included) and reports each of its N items
\* as skipped.
C9_IdempotentRerun ==
    (bpc = "done" /\ AllExistedBefore) =>
        \A i \in 1..total_videos : spawns[i] = 0 /\ report[i] = "skip"

\* C10: a failed item never aborts the batch - at the end of the loop every item
\* has been attempted - and each failure is recorded with the last lines the
\* tool had written.
C10_FailureRecorded ==
    /\ bpc = "done" =>
         \A i \in 1..total_videos : itemState[i] \in {"Skipped", "Succeeded", "Failed"}
    /\ reportLines = FailureLines(pipeline, hadLines)

SomeSucceeded == \E i \in 1..total_videos : itemState[i] = "Succeeded"

\* C11: the value a batch pipeline returns is true if and only if at least one
\* of its items reached the Succeeded state.
C11_ResultIffSomeSucceeded == bpc = "done" => (returned <=> SomeSucceeded)

\* item i goes to Succeeded in this step
BecomesSucceeded(i) == itemState[i] # "Succeeded" /\ itemState'[i] = "Succeeded"

\* C12: an item is counted as Succeeded only if its tool exited with code 0 and
\* the invocation produced the expected artifact; exit code 0 without a new
\* artifact, or an artifact with a non-zero exit code, is a failure.
C12_SuccessNeedsBoth ==
    [][\A i \in Items :
          BecomesSucceeded(i) => (returncode' = 0 /\ artifact'[i] = "new")]_vars

Finished == {k \in 1..Len(queue) : queue[k].sig = "finished"}

\* C13: a job ended by user cancellation gets a terminal notification that
\* differs from the Done(false) of a job that failed by itself.
C13_CancelledIsNotFailed ==
    \A k \in Finished : queue[k].cancelled => queue[k].val # FALSE

\* C14: for every exception the pipeline body raises, whatever the stop flag
\* is, the worker emits an error log event and then Done(false).
C14_ErrorLogThenDone ==
    \A k \in Finished :
        queue[k].raised => (queue[k].log = "error" /\ queue[k].val = FALSE)

\* the scheduling the runner relies on: a thread that can run does run (the end of
\* ScriptWorker.run), and the main thread's event loop takes what is queued
Advance == deliver \/ \E w \in WorkerIds : run_finish(w) \/ thread_exit(w)

Fairness == WF_vars(Advance)

\* The runner's steps as far as the job slot goes.  No guard of the runner reads
\* `children`, so the steps that differ from others only in what becomes of a
\* child (item_except, child_exit) are left out here.
NextSlot ==
    \/ run_script
    \/ transcribe_from_tab
    \/ transcribe_time_range
    \/ stop_operation
    \/ force_terminate_worker
    \/ deliver
    \/ \E w \in WorkerIds : item_skip(w)
    \/ \E w \in WorkerIds : item_begin(w)
    \/ \E w \in WorkerIds : item_finish(w)
    \/ \E w \in WorkerIds : run_finish(w)
    \/ \E w \in WorkerIds : thread_exit(w)

SpecFair == Init /\ [][NextSlot]_vars /\ Fairness

\* the pipeline of job w is over: it returned or raised, or its thread was
\* force-terminated
PipelineOver(w) ==
    \/ wstate[w] = "running" /\ wpc[w] = "loop" /\ wleft[w] = 0
    \/ wstate[w] = "running" /\ wpc[w] = "emitted"
    \/ wstate[w] \in {"exited", "terminated"}

\* job w is in a terminal state and does not hold the job slot
Released(w) == wstate[w] \in {"exited", "terminated"} /\ worker # w

\* C15: slot release - a job whose pipeline returned or raised, or that was
\* force-terminated after a cancel, eventually is in a terminal state with the
\* job slot no longer held by it, so that the next submit is accepted.
C15_SlotReleased == []<>(\A w \in WorkerIds : PipelineOver(w) => Released(w))

\* one job ran to its end and another was force-terminated; the slot is free
C15_Witness ==
    /\ worker = NoWorker
    /\ \E w, v \in WorkerIds : wstate[w] = "exited" /\ wstate[v] = "terminated"

\* the items taken up so far are a prefix of the input, one at a time
InInputOrder ==
    \A i, j \in Items :
        (i < j /\ itemState[j] # "Pending") => itemState[i] \notin {"Pending", "Running"}

\* no child of an earlier item is alive beside the item being run
NoOverlap == bpc = "reading" => alive = 1

NonDecreasing(seq) == \A k \in 1..(Len(seq) - 1) : seq[k] <= seq[k + 1]

\* C16: ordering - batch items run strictly in input order without overlap, the
\* item_index of successive progress events is non-decreasing within 1..N, and
\* the observer receives the events in the order they were produced.
C16_Ordering ==
    /\ InInputOrder
    /\ NoOverlap
    /\ NonDecreasing(emitted)
    /\ \A k \in 1..Len(emitted) : emitted[k] \in 1..total_videos
    /\ observed = SubSeq(emitted, 1, Len(observed))

\* a numeral: blanks around a non-empty run of digits
IsNumeral(tok) == LET t == strip(tok) IN t # <<>> /\ \A k \in 1..Len(t) : IsDigit(t[k])

\* the tokens a-b: the places of a dash with a numeral on either side
RangeCuts(tok) ==
    {k \in 1..Len(tok) : /\ tok[k] = "-"
                         /\ IsNumeral(SubSeq(tok, 1, k - 1))
                         /\ IsNumeral(SubSeq(tok, k + 1, Len(tok)))}

\* the integers a..b in order, nothing for a > b
Interval(a, b) == IF a > b THEN <<>> ELSE [k \in 1..(b - a + 1) |-> a + k - 1]

\* what a token contributes: [n] for a singleton n, [a..b] for a range a-b with
\* a <= b, nothing for a malformed one
Contribution(tok) ==
    IF IsNumeral(tok) THEN <<DecimalValue(strip(tok))>>
    ELSE IF RangeCuts(tok) # {}
    THEN LET k == CHOOSE k \in RangeCuts(tok) : TRUE IN
         Interval(DecimalValue(strip(SubSeq(tok, 1, k - 1))),
                  DecimalValue(strip(SubSeq(tok, k + 1, Len(tok)))))
    ELSE <<>>

RECURSIVE Contributions(_)
Contributions(toks) ==
    IF toks = <<>> THEN <<>> ELSE Contribution(Head(toks)) \o Contributions(Tail(toks))

\* C17: parse_episode_range returns without raising, and its result is the
\* in-order concatenation of what its comma-separated tokens contribute.
C17_ParseIsConcatenation ==
    (fn = "parse_episode_range" /\ called) =>
        /\ out.raises = "none"
        /\ out.items = Contributions(split(arg, ","))

\* "1-3,0" was parsed: a range and a singleton, in this order
C17_Witness ==
    /\ fn = "parse_episode_range" /\ called
    /\ arg = <<"1", "-", "3", ",", "0">>
    /\ out.items = <<1, 2, 3, 0>>

\* C18: every element of the list parse_episode_range returns is a positive
\* integer.
C18_AllPositive ==
    (fn = "parse_episode_range" /\ called) =>
        \A k \in 1..Len(out.items) : out.items[k] >= 1

\* the identifier the statement gives line i of L, for the resolved list
SpecifiedIdentifier(resolved, i) ==
    IF resolved = <<>> THEN i
    ELSE IF i <= Len(resolved) THEN resolved[i]
    ELSE resolved[Len(resolved)] + (i - Len(resolved))

\* C19: identifier assignment in download_episodes - with L command lines and a
\* resolved list of length k, line i <= k gets the i-th resolved identifier, the
\* lines after k get last+1, last+2, ..., and an empty resolved list gives 1..L;
\* every one of the L lines gets an identifier.
C19_IdentifierAssignment ==
    (fn = "download_episodes" /\ called) =>
        /\ Len(out) = arg.lines
        /\ \A i \in 1..arg.lines :
               out[i] = SpecifiedIdentifier(parse_episode_range(arg.episode_spec).items, i)

\* three command lines with the specification "3": one resolved identifier,
\* two from the extension
C19_Witness ==
    /\ fn = "download_episodes" /\ called
    /\ arg.episode_spec = <<"3">> /\ arg.lines = 3
    /\ out = <<3, 4, 5>>

\* C20: error-priority override - every tool output line whose lowercased text
\* contains an error keyword is delivered to the observer with warning/error
\* severity, also when it carries a suppressed noisy marker or repeats the
\* previous line.
C20_ErrorAlwaysSurfaced ==
    called =>
        \A k \in 1..Len(arg) :
            is_error(arg[k]) => out[k].form = "warning" /\ out[k].text = arg[k]

\* a well-formed HH:MM:SS.ff timecode: three fields between colons, whole
\* hours, whole minutes and an unsigned decimal numeral of seconds
UnsignedNumeral(t) ==
    LET pieces == split(t, ".") IN
    /\ Len(pieces) <= 2
    /\ pieces[1] # <<>> /\ AllDigits(pieces[1])
    /\ Len(pieces) = 2 => (pieces[2] # <<>> /\ AllDigits(pieces[2]))

WellFormedTimecode(str) ==
    LET fields == split(str, ":") IN
    /\ Len(fields) = 3
    /\ \A k \in 1..2 : fields[k] # <<>> /\ AllDigits(fields[k])
    /\ UnsignedNumeral(fields[3])

\* C21: parse_ffmpeg_time never raises; a well-formed HH:MM:SS.ff timecode
\* yields hours*3600 + minutes*60 + seconds, every malformed one yields null.
C21_TimecodeOrNull ==
    (fn = "parse_ffmpeg_time" /\ called) =>
        /\ out.raises = "none"
        /\ IF WellFormedTimecode(arg)
           THEN LET f == split(arg, ":") IN
                /\ ~out.null
                /\ out.hundredths = 360000 * DecimalValue(f[1])
                                      + 6000 * DecimalValue(f[2])
                                      + 100 * DecimalValue(split(f[3], ".")[1])
                                      + (IF Contains(f[3], ".")
                                         THEN FractionHundredths(split(f[3], ".")[2])
                                         ELSE 0)
           ELSE out.null

\* the speed multiplier is missing, zero or negative
NoSpeed(speed) == speed = NoneNum \/ speed <= 0

\* the remaining whole seconds (total_duration - elapsed) / speed
Remaining(d, t, speed) == FloorDiv((d - t) * 10, speed)

\* C22: after a progress line of an item whose duration and elapsed time are
\* known, the ETA is the indeterminate value whenever the speed is missing,
\* zero or negative, and is (total_duration - elapsed) / speed, formatted by
\* magnitude, whenever the speed is positive.
C22_EtaBySpeed ==
    (fn = "eta_str" /\ called /\ arg.d # NoneNum /\ arg.d > 0 /\ arg.t # NoneNum) =>
        IF NoSpeed(arg.speed) THEN out = Calculating
        ELSE LET r == Remaining(arg.d, arg.t, arg.speed) IN
             /\ out.text \in {"Nh Nm Ns", "Nm Ns", "Ns"}
             /\ 3600 * out.h + 60 * out.m + out.s = r
             /\ out.text = "Nh Nm Ns" <=> r >= 3600
             /\ out.text = "Ns" <=> r < 60

Status(e) == e.text \ {"Progress: 50% (1/2 lines)", "Progress: 100% (2/2 lines)"}

\* events i and j were emitted one directly after the other
Adjacent(i, j) ==
    /\ i < j /\ out[i] # None /\ out[j] # None
    /\ \A k \in (i + 1)..(j - 1) : out[k] = None

\* C24: consecutive-duplicate suppression in the translation stream - within
\* one item no two log events emitted one directly after the other carry the
\* same cleaned status string.
C24_NoConsecutiveDuplicate ==
    (fn = "translate_subtitles" /\ called) =>
        \A i, j \in 1..Len(out) : Adjacent(i, j) => Status(out[i]) # Status(out[j])

\* C25: the grace timer force-terminates only a job whose cancel request armed
\* a timer - a job that is terminated had its stop requested; a job submitted
\* after the cancelled one ended is left alone when the old timer fires.
C25_TimerHitsOnlyCancelledJob ==
    [][\A w \in WorkerIds :
          (wstate[w] = "running" /\ wstate'[w] = "terminated") => wstop[w]]_vars

\* the event loop hands the finished signal of job w to the completion handler
DeliversFinished(w) ==
    /\ queue # <<>> /\ queue' = Tail(queue)
    /\ Head(queue).sig = "finished" /\ Head(queue).w = w

\* C26: every accepted job gets exactly one terminal notification - the
\* completion handler, which force_terminate_worker already ran for a job it
\* terminated, is not run again for that job by a finished signal delivered
\* later, and no job has two finished signals in flight.
C26_OneTerminalNotification ==
    [][\A w \in WorkerIds :
          /\ DeliversFinished(w) => wstate[w] # "terminated"
          /\ Cardinality({k \in 1..Len(queue) :
                             queue[k].sig = "finished" /\ queue[k].w = w}) <= 1]_vars

\* the event loop hands the observer the event at the head of the queue
Delivers == queue # <<>> /\ queue' = Tail(queue)

\* C27: once stop was requested on a worker the observer gets no event of the
\* pipeline any more - no progress event of that worker is delivered, and the
\* terminal signal delivered is Done(false) whatever the pipeline returned.
C27_MutedAfterStop ==
    [][(Delivers /\ wstop[Head(queue).w]) =>
          /\ Head(queue).sig # "progress"
          /\ Head(queue).sig = "finished" => Head(queue).val = FALSE]_vars

\* C28: within one download batch distinct command lines get pairwise distinct
\* identifiers, so no two items are saved under the same --save-name.
C28_DistinctIdentifiers ==
    (fn = "download_episodes" /\ called) =>
        \A i, j \in 1..Len(out) : i # j => out[i] # out[j]

\* C29: translate_subtitles never loses the original content of an input -
\* after every item, the content of each processed input is at its own path or
\* in the _OG backup derived from it.
C29_OriginalKept ==
    (fn = "translate_subtitles_files" /\ called) =>
        \A f \in out.done : f \in {out.fs[f], out.fs[og_file(f)]}

\* the positions of the entries of a kind that name the numeric id v
PositionsOf(kinds, v) ==
    {k \in 1..Len(arg) : arg[k].kind \in kinds /\ IdValue(arg[k].id) = v}

SetMin(S) == IF S = {} THEN 0 ELSE CHOOSE x \in S : \A y \in S : x <= y
SetMax(S) == IF S = {} THEN 0 ELSE CHOOSE x \in S : \A y \in S : x >= y

\* the numeric ids seen in the entries
SeenIds == {IdValue(arg[k].id) : k \in {j \in 1..Len(arg) : arg[j].kind # "other"}}

\* C30: extract_m3u8_urls returns one entry per distinct numeric video id seen,
\* in ascending numeric order; the title is that of the first analytics entry
\* seen for the id, the URL that of the last main-manifest entry seen for it,
\* and never a URL with '-manifest-' in it.
C30_OnePerIdSortedFirstTitleLastUrl ==
    (fn = "extract_m3u8_urls" /\ called) =>
        /\ {IdValue(out[n].video_id) : n \in 1..Len(out)} = SeenIds
        /\ \A m, n \in 1..Len(out) :
               m < n => IdValue(out[m].video_id) < IdValue(out[n].video_id)
        /\ \A n \in 1..Len(out) :
               LET v == IdValue(out[n].video_id) IN
               /\ out[n].title = SetMin(PositionsOf({"analytics", "analytics_last"}, v))
               /\ out[n].url = SetMax(PositionsOf({"manifest"}, v))
               /\ out[n].url # 0 => arg[out[n].url].kind # "variant"

====
